---- MODULE Spec2Model ----
(***************************************************************************)
(* Model of scripts/voice-embedding-worker.py: create_speaker_embeddings   *)
(* (grouping of diarization words, greedy merge of close segments, audio   *)
(* extraction and encoding per merged segment, averaging), followed by      *)
(* compare_speakers and find_best_matches.                                  *)
(*                                                                          *)
(* Conventions.                                                             *)
(*  - A Python dict is a sequence of entries in insertion order; that is    *)
(*    the order in which .items() iterates.                                 *)
(*  - A word's text is a sequence of tokens; "a + ' ' + b" is a \o b.  The  *)
(*    i-th input word carries the token i, so the text of a merged segment  *)
(*    lists the input words folded into it.                                 *)
(*  - Embedding components are fixed point with 1.0 = 60, so that the mean  *)
(*    of up to five vectors is exact.  Similarity scores are in hundredths, *)
(*    cut toward zero: a score s stands for a cosine in [s/100, (s+1)/100). *)
(*    A threshold that is a whole number of hundredths then compares with   *)
(*    a score as it does with the cosine.  Vectors are never all zero.      *)
(***************************************************************************)
EXTENDS Integers, Sequences, FiniteSets, TLC

VARIABLES
    words,              \* diarization_words: the input list
    env,                \* outcomes the extractor and the encoder can produce in this run
    pc,                 \* position in create_speaker_embeddings / main
    wi,                 \* index of the next word of the grouping loop (line 76)
    speaker_segments,   \* dict speaker -> list of segments, in insertion order
    si,                 \* index of the next entry of speaker_segments.items() (line 93)
    sorted_segs,        \* sorted(sample_segments, key=start) of the current speaker
    mi,                 \* index of the next segment of the merge loop (line 101)
    current,            \* <<>> for None, <<seg>> otherwise
    merged_segments,    \* merged_segments of the current speaker
    ei,                 \* i of enumerate(merged_segments[:5]) (line 122)
    embeddings,         \* embeddings of the current speaker
    speaker_embeddings, \* dict speaker -> averaged embedding
    files,              \* audio files the run wrote that are on disk, by path
    extract_log,        \* calls made to ffmpeg and what came of each
    status_log,         \* the per-speaker lines printed (116, 138, 140)
    result,             \* main's result dict (<<>> until built)
    embeddings1,        \* compare_speakers: candidate dict
    embeddings2,        \* compare_speakers: reference dict
    threshold,          \* find_best_matches: threshold
    similarities,       \* dict speaker -> dict reference -> score
    ri,                 \* index of the next row of similarities.items() (line 182)
    matches,            \* dict speaker -> match
    mpc                 \* position in compare_speakers / find_best_matches

pipeVars ==
    <<words, env, pc, wi, speaker_segments, si, sorted_segs, mi, current,
      merged_segments, ei, embeddings, speaker_embeddings, files, extract_log,
      status_log, result>>

matchVars ==
    <<embeddings1, embeddings2, threshold, similarities, ri, matches, mpc>>

vars ==
    <<words, env, pc, wi, speaker_segments, si, sorted_segs, mi, current,
      merged_segments, ei, embeddings, speaker_embeddings, files, extract_log,
      status_log, result, embeddings1, embeddings2, threshold, similarities,
      ri, matches, mpc>>

----------------------------------------------------------------------------
(* Program constants. *)

\* line 104: seg['start'] - current['end'] < 500
GapMs == 500

\* lines 108, 112: current['end'] - current['start'] > 500
MinDurMs == 500

\* line 95: segments[:10]
MaxSample == 10

\* line 122: merged_segments[:5]
MaxEmbed == 5

\* line 169: threshold: float = 0.75, in hundredths
DefaultThreshold == 75

(* Bounds of the model. *)

\* longest input word list of Spec
MaxWords == 3

\* longest input word list of SpecMerge
MaxSpans == 3

\* SpecCap feeds MaxSample - 1 .. MaxSample + CapExtra words of one speaker
CapExtra == 2

\* largest number of entries of the candidate dict
MaxCands == 2

\* largest number of entries of the reference dict
MaxRefs == 2

----------------------------------------------------------------------------
(* Helpers for dicts kept as sequences of entries. *)

Min2(a, b) == IF a <= b THEN a ELSE b

Keys(d) == {d[i].key : i \in DOMAIN d}

HasKey(d, k) == \E i \in DOMAIN d : d[i].key = k

IndexOf(d, k) == CHOOSE i \in DOMAIN d : d[i].key = k

Get(d, k) == d[IndexOf(d, k)].val

\* d[k] = v: a new key goes last, an old key keeps its place
Put(d, k, v) ==
    IF HasKey(d, k)
    THEN [d EXCEPT ![IndexOf(d, k)] = [key |-> k, val |-> v]]
    ELSE Append(d, [key |-> k, val |-> v])

Take(s, n) == SubSeq(s, 1, Min2(n, Len(s)))

----------------------------------------------------------------------------
(* Inputs. *)

\* A speaker ID is any string of the diarization JSON (line 77): "S1" is a
\* plain name, "../S9" and "/esc/EVIL" read as paths.
Speakers == {"S1", "../S9"}

\* The speakers of SpecCap.
CapSpeakers == {"S1", "/esc/EVIL"}

\* word.get('speaker', 'UNKNOWN'): a word without a speaker reads as "UNKNOWN"
Labels == Speakers \cup {"UNKNOWN"}

\* Durations in ms of the words of Spec.  Word i starts at 1200 * (i - 1): a
\* word of 100 ms is too short on its own, one of 600 ms is long enough and
\* ends 600 ms before the next.
MainDurations == {100, 600}

\* The spans of spec section 8, a span of exactly 500 ms, a gap of exactly
\* 500 ms (900 -> 1400), nested and overlapping spans, and a span that ends
\* before it starts.
RichSpans ==
    {<<0, 400>>, <<450, 900>>, <<2000, 2200>>, <<0, 500>>, <<1400, 2000>>,
     <<0, 2000>>, <<100, 700>>, <<1200, 1800>>, <<300, 200>>}

\* Word lists of length 0..n; the i-th word has the text token i.
WordLists(n, labels, spans) ==
    UNION {
        {[i \in 1..k |->
            [speaker |-> f[i][1], start |-> f[i][2][1], end |-> f[i][2][2],
             text |-> <<i>>]] : f \in [1..k -> labels \X spans]}
        : k \in 0..n}

\* Word lists of length 0..n in time order, with every labelling.
TimedWordLists(n) ==
    UNION {
        {[i \in 1..k |->
            [speaker |-> f[i][1], start |-> 1200 * (i - 1),
             end |-> 1200 * (i - 1) + f[i][2], text |-> <<i>>]]
            : f \in [1..k -> Labels \X MainDurations]}
        : k \in 0..n}

\* n words of one speaker; word i covers slot (i - 1 + r) % n, slots are
\* `stride` apart and 600 ms long.
SlotWords(speaker_id, n, r, stride) ==
    [i \in 1..n |->
        [speaker |-> speaker_id,
         start |-> stride * ((i - 1 + r) % n),
         end |-> stride * ((i - 1 + r) % n) + 600,
         text |-> <<i>>]]

CapWordLists ==
    {SlotWords(speaker_id, n, r, stride) :
        speaker_id \in CapSpeakers,
        n \in (MaxSample - 1)..(MaxSample + CapExtra),
        r \in 0..(MaxSample + CapExtra),
        stride \in {1000, 1200}}

\* What one extraction + encoding can come to.
\*   ffmpeg_error  subprocess.run raises CalledProcessError (line 54)
\*   small         ffmpeg wrote a file of at most 1000 bytes (line 53)
\*   oserror       subprocess.run raises something else, e.g. ffmpeg is missing
\*   enc_raise     preprocess_wav or embed_utterance raises (line 131)
\*   wav_empty     preprocess_wav returns an empty wav (line 128)
\*   ok            embed_utterance returns vec
EncoderVecs == {<<60, 0>>, <<0, 60>>}

Failures ==
    {[kind |-> k, vec |-> <<>>] :
        k \in {"ffmpeg_error", "small", "oserror", "enc_raise", "wav_empty"}}

Outcomes == Failures \cup {[kind |-> "ok", vec |-> v] : v \in EncoderVecs}

\* An environment in which ffmpeg may fail on a segment and nothing else does.
QuietOutcomes ==
    {[kind |-> "ffmpeg_error", vec |-> <<>>], [kind |-> "ok", vec |-> <<60, 0>>]}

----------------------------------------------------------------------------
(* create_speaker_embeddings: the pieces. *)

\* lines 84-88: the segment kept for a word
SegmentOf(word) == [start |-> word.start, end |-> word.end, text |-> word.text]

SampleUncapped(segments) == segments

\* line 95: segments[:10]
Sample(segments) == Take(segments, MaxSample)

\* The entries of a start-sorted list t that stay before x in a stable sort.
InsertByStart(t, x) ==
    LET k == Cardinality({i \in DOMAIN t : t[i].start <= x.start})
    IN  SubSeq(t, 1, k) \o <<x>> \o SubSeq(t, k + 1, Len(t))

RECURSIVE StableSort(_)
StableSort(s) ==
    IF s = <<>> THEN <<>>
    ELSE InsertByStart(StableSort(SubSeq(s, 1, Len(s) - 1)), s[Len(s)])

\* line 101: sorted(sample_segments, key=lambda x: x['start']); sorted is stable
SortByStart(s) == StableSort(s)

\* line 104: seg['start'] - current['end'] < 500
CloseGap(cur, seg) == seg.start - cur.end < GapMs

\* lines 105-106: current['end'] = seg['end']; current['text'] += ' ' + seg['text']
Fold(cur, seg) == [cur EXCEPT !.end = seg.end, !.text = @ \o seg.text]

LongEnoughOrEqual(cur) == cur.end - cur.start >= MinDurMs

\* lines 108, 112: current['end'] - current['start'] > 500
LongEnough(cur) == cur.end - cur.start > MinDurMs

\* line 122: merged_segments[:5]
Selected(merged) == Take(merged, MaxEmbed)

\* line 92: the directory tempfile.TemporaryDirectory() makes, /tmp/tmpdir,
\* as its components
TempDir == <<"tmp", "tmpdir">>

\* The components of a speaker ID read as a path, split at "/"; a leading ""
\* stands for a leading "/".
Split(speaker_id) ==
    CASE speaker_id = "../S9" -> <<"..", "S9">>
      [] speaker_id = "/esc/EVIL" -> <<"", "esc", "EVIL">>
      [] OTHER -> <<speaker_id>>

\* The directory a path names once every ".." has dropped the component
\* before it.
RECURSIVE Resolve(_)
Resolve(parts) ==
    IF parts = <<>> THEN <<>>
    ELSE LET before == Resolve(SubSeq(parts, 1, Len(parts) - 1))
             last == parts[Len(parts)]
         IN  IF last = ".."
             THEN SubSeq(before, 1, Len(before) - 1)
             ELSE Append(before, last)

\* line 123: os.path.join(temp_dir, f"{speaker_id}_{i}.wav"): an absolute
\* second argument discards temp_dir, ".." leaves it.  The file is
\* <base>_<i>.wav in directory dir.
AudioPath(temp_dir, speaker_id, i) ==
    LET parts == Split(speaker_id)
        full == IF parts[1] = "" THEN Resolve(Tail(parts))
                ELSE Resolve(temp_dir \o parts)
    IN  [dir |-> SubSeq(full, 1, Len(full) - 1), base |-> full[Len(full)], i |-> i]

\* Whether directory dir is temp_dir or lies below it.
Under(dir, temp_dir) ==
    /\ Len(dir) >= Len(temp_dir)
    /\ SubSeq(dir, 1, Len(temp_dir)) = temp_dir

\* lines 52-53: ffmpeg ran; it leaves a file behind unless it failed
FileWritten(o) == o.kind \in {"small", "enc_raise", "wav_empty", "ok"}

PropagatesUntried(o) == o.kind \in {"oserror", "enc_raise"}

\* lines 51-55, 126-132: CalledProcessError and any Exception of the encoder
\* are caught; another error of subprocess.run leaves the function
Propagates(o) == o.kind = "oserror"

\* lines 125-130: the vector appended to embeddings, if any
Appended(o) == IF o.kind = "ok" THEN <<o.vec>> ELSE <<>>

RECURSIVE VecSum(_)
VecSum(vs) ==
    IF Len(vs) = 1 THEN vs[1]
    ELSE [d \in DOMAIN vs[1] |-> vs[1][d] + VecSum(Tail(vs))[d]]

\* line 136: np.mean(embeddings, axis=0), of a non-empty list
Mean(vs) == [d \in DOMAIN vs[1] |-> VecSum(vs)[d] \div Len(vs)]

StoreAlways(d, speaker_id, embs) ==
    Put(d, speaker_id, IF embs # <<>> THEN Mean(embs) ELSE <<0, 0>>)

\* lines 134-137: if embeddings: speaker_embeddings[speaker_id] = mean
StoreEmbedding(d, speaker_id, embs) ==
    IF embs # <<>> THEN Put(d, speaker_id, Mean(embs)) ELSE d

\* line 92: leaving "with tempfile.TemporaryDirectory()" removes the directory
\* and what is in it, and nothing else
TempDirExit(fs) == {f \in fs : ~Under(f.dir, TempDir)}

----------------------------------------------------------------------------
(* create_speaker_embeddings: the steps. *)

\* lines 76-88: one word of the grouping loop
GroupWord ==
    /\ pc = "group"
    /\ wi <= Len(words)
    /\ LET word == words[wi]
           old == IF HasKey(speaker_segments, word.speaker)
                  THEN Get(speaker_segments, word.speaker) ELSE <<>>
       IN  speaker_segments' =
               IF word.speaker = "UNKNOWN" THEN speaker_segments
               ELSE Put(speaker_segments, word.speaker, Append(old, SegmentOf(word)))
    /\ wi' = wi + 1
    /\ UNCHANGED <<words, env, pc, si, sorted_segs, mi, current, merged_segments,
                   ei, embeddings, speaker_embeddings, files, extract_log,
                   status_log, result>>
    /\ UNCHANGED matchVars

\* line 92: the grouping loop is over, the temporary directory is made
EnterTempDir ==
    /\ pc = "group"
    /\ wi > Len(words)
    /\ pc' = "speaker"
    /\ si' = 1
    /\ UNCHANGED <<words, env, wi, speaker_segments, sorted_segs, mi, current,
                   merged_segments, ei, embeddings, speaker_embeddings, files,
                   extract_log, status_log, result>>
    /\ UNCHANGED matchVars

\* lines 93-101: the next speaker; its sample is cut and sorted
NextSpeaker ==
    /\ pc = "speaker"
    /\ si <= Len(speaker_segments)
    /\ sorted_segs' = SortByStart(Sample(speaker_segments[si].val))
    /\ merged_segments' = <<>>
    /\ current' = <<>>
    /\ mi' = 1
    /\ pc' = "merge"
    /\ UNCHANGED <<words, env, wi, speaker_segments, si, ei, embeddings,
                   speaker_embeddings, files, extract_log, status_log, result>>
    /\ UNCHANGED matchVars

\* lines 101-110: one segment of the merge loop
MergeStep ==
    /\ pc = "merge"
    /\ mi <= Len(sorted_segs)
    /\ LET seg == sorted_segs[mi]
       IN  IF current = <<>>
           THEN /\ current' = <<seg>>
                /\ merged_segments' = merged_segments
           ELSE IF CloseGap(current[1], seg)
           THEN /\ current' = <<Fold(current[1], seg)>>
                /\ merged_segments' = merged_segments
           ELSE /\ merged_segments' =
                       IF LongEnough(current[1])
                       THEN Append(merged_segments, current[1])
                       ELSE merged_segments
                /\ current' = <<seg>>
    /\ mi' = mi + 1
    /\ UNCHANGED <<words, env, pc, wi, speaker_segments, si, sorted_segs, ei,
                   embeddings, speaker_embeddings, files, extract_log,
                   status_log, result>>
    /\ UNCHANGED matchVars

\* lines 112-120: the trailing current; a speaker without segments is skipped
FinishMerge ==
    /\ pc = "merge"
    /\ mi > Len(sorted_segs)
    /\ LET merged == IF current # <<>> /\ LongEnough(current[1])
                     THEN Append(merged_segments, current[1])
                     ELSE merged_segments
       IN  /\ merged_segments' = merged
           /\ IF merged = <<>>
              THEN /\ status_log' =
                          Append(status_log,
                                 [speaker |-> speaker_segments[si].key,
                                  status |-> "no valid segments", n |-> 0])
                   /\ si' = si + 1
                   /\ pc' = "speaker"
                   /\ UNCHANGED <<ei, embeddings>>
              ELSE /\ embeddings' = <<>>
                   /\ ei' = 0
                   /\ pc' = "embed"
                   /\ UNCHANGED <<status_log, si>>
    /\ UNCHANGED <<words, env, wi, speaker_segments, sorted_segs, mi, current,
                   speaker_embeddings, files, extract_log, result>>
    /\ UNCHANGED matchVars

\* lines 122-132: one merged segment: extract its audio, encode it
EmbedStep ==
    /\ pc = "embed"
    /\ ei < Len(Selected(merged_segments))
    /\ \E o \in env :
         LET seg == Selected(merged_segments)[ei + 1]
             speaker_id == speaker_segments[si].key
             written == IF FileWritten(o)
                        THEN files \cup {AudioPath(TempDir, speaker_id, ei)} ELSE files
         IN  /\ extract_log' =
                    Append(extract_log,
                           [speaker |-> speaker_id, i |-> ei, start |-> seg.start,
                            end |-> seg.end, out |-> o])
             /\ IF Propagates(o)
                THEN /\ files' = TempDirExit(written)
                     /\ pc' = "raised"
                     /\ UNCHANGED <<ei, embeddings>>
                ELSE /\ files' = written
                     /\ embeddings' = embeddings \o Appended(o)
                     /\ ei' = ei + 1
                     /\ pc' = pc
    /\ UNCHANGED <<words, env, wi, speaker_segments, si, sorted_segs, mi, current,
                   merged_segments, speaker_embeddings, status_log, result>>
    /\ UNCHANGED matchVars

\* lines 134-140: the speaker's embedding is the mean of what was collected
FinishSpeaker ==
    /\ pc = "embed"
    /\ ei >= Len(Selected(merged_segments))
    /\ speaker_embeddings' =
           StoreEmbedding(speaker_embeddings, speaker_segments[si].key, embeddings)
    /\ status_log' =
           Append(status_log,
                  [speaker |-> speaker_segments[si].key,
                   status |-> IF embeddings # <<>> THEN "embedding created"
                              ELSE "failed to create embedding",
                   n |-> Len(embeddings)])
    /\ si' = si + 1
    /\ pc' = "speaker"
    /\ UNCHANGED <<words, env, wi, speaker_segments, sorted_segs, mi, current,
                   merged_segments, ei, embeddings, files, extract_log, result>>
    /\ UNCHANGED matchVars

\* lines 93, 142: no speaker is left; the with block ends, the dict is returned
ReturnEmbeddings ==
    /\ pc = "speaker"
    /\ si > Len(speaker_segments)
    /\ files' = TempDirExit(files)
    /\ pc' = "returned"
    /\ UNCHANGED <<words, env, wi, speaker_segments, si, sorted_segs, mi, current,
                   merged_segments, ei, embeddings, speaker_embeddings,
                   extract_log, status_log, result>>
    /\ UNCHANGED matchVars

\* lines 216-221: main builds its result
BuildResult ==
    /\ pc = "returned"
    /\ result' = <<[embeddings |-> speaker_embeddings,
                    speaker_count |-> Len(speaker_embeddings)]>>
    /\ pc' = "built"
    /\ UNCHANGED <<words, env, wi, speaker_segments, si, sorted_segs, mi, current,
                   merged_segments, ei, embeddings, speaker_embeddings, files,
                   extract_log, status_log>>
    /\ UNCHANGED matchVars

----------------------------------------------------------------------------
(* Initial states of create_speaker_embeddings. *)

\* The matcher at rest.
MatchIdle ==
    /\ embeddings1 = <<>>
    /\ embeddings2 = <<>>
    /\ threshold = DefaultThreshold
    /\ similarities = <<>>
    /\ ri = 1
    /\ matches = <<>>
    /\ mpc = "idle"

\* lines 71-73: the state on entry
PipeStart ==
    /\ pc = "group"
    /\ wi = 1
    /\ speaker_segments = <<>>
    /\ si = 1
    /\ sorted_segs = <<>>
    /\ mi = 1
    /\ current = <<>>
    /\ merged_segments = <<>>
    /\ ei = 0
    /\ embeddings = <<>>
    /\ speaker_embeddings = <<>>
    /\ files = {}
    /\ extract_log = <<>>
    /\ status_log = <<>>
    /\ result = <<>>

Init ==
    /\ words \in TimedWordLists(MaxWords)
    /\ env = Outcomes
    /\ PipeStart
    /\ MatchIdle

InitMerge ==
    /\ words \in WordLists(MaxSpans, {"S1"}, RichSpans)
    /\ env = QuietOutcomes
    /\ PipeStart
    /\ MatchIdle

InitCap ==
    /\ words \in CapWordLists
    /\ env = QuietOutcomes
    /\ PipeStart
    /\ MatchIdle

----------------------------------------------------------------------------
(* compare_speakers and find_best_matches. *)

\* Speaker and reference IDs, each pool in lexicographic order.
CandIds == <<"A", "B", "C", "D">>

RefIds == <<"X", "Y", "Z", "ZZ">>

\* Vectors whose cosines are 0, 0.6, 0.8 and 1.
MatchVecs == {<<1, 0>>, <<0, 1>>, <<3, 4>>}

\* Thresholds in hundredths: 0.6 and 0.8 are scores the vectors produce.
Thresholds == {60, DefaultThreshold, 80}

\* Dicts of at most n entries, keys among the first n of ids, in every
\* insertion order.
Dicts(ids, n, vals) ==
    LET pool == {ids[i] : i \in 1..Min2(n, Len(ids))}
    IN  UNION {
            {d \in [1..k -> [key : pool, val : vals]] :
                \A i, j \in 1..k : i # j => d[i].key # d[j].key}
            : k \in 0..Min2(n, Len(ids))}

Dot(a, b) == a[1] * b[1] + a[2] * b[2]

\* line 163: np.dot(emb1, emb2) / (norm(emb1) * norm(emb2)), in hundredths:
\* the square root of dot^2 / (|emb1|^2 * |emb2|^2), with the sign of dot
Cosine(a, b) ==
    LET dot == Dot(a, b)
        sq == (10000 * dot * dot) \div (Dot(a, a) * Dot(b, b))
        mag == CHOOSE c \in 0..100 : c * c <= sq /\ sq < (c + 1) * (c + 1)
    IN  IF dot < 0 THEN 0 - mag ELSE mag

\* lines 154-166: one row per candidate, one column per reference
CompareAll(e1, e2) ==
    [i \in DOMAIN e1 |->
        [key |-> e1[i].key,
         val |-> [j \in DOMAIN e2 |->
                    [key |-> e2[j].key, val |-> Cosine(e1[i].val, e2[j].val)]]]]

\* line 183: max(scores.items(), key=lambda x: x[1]) returns the first item,
\* in iteration order, whose score no other exceeds
PyMax(scores) ==
    LET k == CHOOSE i \in DOMAIN scores :
                 /\ \A j \in DOMAIN scores : scores[j].val <= scores[i].val
                 /\ \A j \in 1..(i - 1) : scores[j].val < scores[i].val
    IN  scores[k]

AcceptStrict(score, th) == score > th

\* line 184: best_match[1] >= threshold
Accept(score, th) == score >= th

\* lines 185-189
MatchOf(best) ==
    [character |-> best.key, confidence |-> best.val, method |-> "voice_embedding"]

\* line 229: compare_speakers(speaker_embeddings, reference_embeddings)
CompareSpeakers ==
    /\ mpc = "compare"
    /\ similarities' = CompareAll(embeddings1, embeddings2)
    /\ matches' = <<>>
    /\ ri' = 1
    /\ mpc' = "match"
    /\ UNCHANGED <<embeddings1, embeddings2, threshold>>
    /\ UNCHANGED pipeVars

\* lines 182-189: one row; max() of an empty row raises ValueError, which
\* nothing catches: main, when it is the caller, ends there
MatchRow ==
    /\ mpc = "match"
    /\ ri <= Len(similarities)
    /\ LET speaker == similarities[ri].key
           scores == similarities[ri].val
       IN  IF DOMAIN scores = {}
           THEN /\ mpc' = "raised"
                /\ UNCHANGED <<matches, ri>>
           ELSE /\ matches' =
                       IF Accept(PyMax(scores).val, threshold)
                       THEN Put(matches, speaker, MatchOf(PyMax(scores)))
                       ELSE matches
                /\ ri' = ri + 1
                /\ mpc' = mpc
    /\ UNCHANGED <<embeddings1, embeddings2, threshold, similarities>>
    /\ UNCHANGED pipeVars

\* line 191: return matches
ReturnMatches ==
    /\ mpc = "match"
    /\ ri > Len(similarities)
    /\ mpc' = "done"
    /\ UNCHANGED <<embeddings1, embeddings2, threshold, similarities, ri, matches>>
    /\ UNCHANGED pipeVars

\* create_speaker_embeddings at rest.
PipeIdle ==
    /\ words = <<>>
    /\ env = {}
    /\ pc = "idle"
    /\ wi = 1
    /\ speaker_segments = <<>>
    /\ si = 1
    /\ sorted_segs = <<>>
    /\ mi = 1
    /\ current = <<>>
    /\ merged_segments = <<>>
    /\ ei = 0
    /\ embeddings = <<>>
    /\ speaker_embeddings = <<>>
    /\ files = {}
    /\ extract_log = <<>>
    /\ status_log = <<>>
    /\ result = <<>>

InitMatch ==
    /\ embeddings1 \in Dicts(CandIds, MaxCands, MatchVecs)
    /\ embeddings2 \in Dicts(RefIds, MaxRefs, MatchVecs)
    /\ threshold \in Thresholds
    /\ similarities = <<>>
    /\ ri = 1
    /\ matches = <<>>
    /\ mpc = "compare"
    /\ PipeIdle

NextMatch ==
    \/ CompareSpeakers
    \/ MatchRow
    \/ ReturnMatches

SpecMatch == InitMatch /\ [][NextMatch]_vars

----------------------------------------------------------------------------
(* main, after its result dict is built. *)

\* What reference_json can hold: an empty dict, two references with the same
\* vector (the later ID inserted first), two with different vectors.  The
\* vectors are in units of 1; the cosine does not depend on the unit.
References ==
    {<<>>,
     <<[key |-> "Y", val |-> <<1, 0>>], [key |-> "X", val |-> <<1, 0>>]>>,
     <<[key |-> "X", val |-> <<1, 0>>], [key |-> "Y", val |-> <<0, 1>>]>>}

\* line 224 false: no reference file; lines 239-247 print the result
NoReference ==
    /\ pc = "built"
    /\ pc' = "done"
    /\ UNCHANGED <<words, env, wi, speaker_segments, si, sorted_segs, mi, current,
                   merged_segments, ei, embeddings, speaker_embeddings, files,
                   extract_log, status_log, result>>
    /\ UNCHANGED matchVars

\* lines 224-230: the reference file is read; compare_speakers and
\* find_best_matches (with its default threshold) are entered
LoadReference ==
    /\ pc = "built"
    /\ embeddings2' \in References
    /\ embeddings1' = speaker_embeddings
    /\ threshold' = DefaultThreshold
    /\ mpc' = "compare"
    /\ pc' = "matching"
    /\ UNCHANGED <<similarities, ri, matches>>
    /\ UNCHANGED <<words, env, wi, speaker_segments, si, sorted_segs, mi, current,
                   merged_segments, ei, embeddings, speaker_embeddings, files,
                   extract_log, status_log, result>>

\* lines 232-233: find_best_matches has returned; the result gets two more keys
StoreMatches ==
    /\ pc = "matching"
    /\ mpc = "done"
    /\ result' = <<[embeddings |-> result[1].embeddings,
                    speaker_count |-> result[1].speaker_count,
                    similarities |-> similarities,
                    matches |-> matches]>>
    /\ pc' = "done"
    /\ UNCHANGED <<words, env, wi, speaker_segments, si, sorted_segs, mi, current,
                   merged_segments, ei, embeddings, speaker_embeddings, files,
                   extract_log, status_log>>
    /\ UNCHANGED matchVars

Next ==
    \/ GroupWord
    \/ EnterTempDir
    \/ NextSpeaker
    \/ MergeStep
    \/ FinishMerge
    \/ EmbedStep
    \/ FinishSpeaker
    \/ ReturnEmbeddings
    \/ BuildResult
    \/ NoReference
    \/ LoadReference
    \/ CompareSpeakers
    \/ MatchRow
    \/ ReturnMatches
    \/ StoreMatches

Spec == Init /\ [][Next]_vars

SpecMerge == InitMerge /\ [][Next]_vars

SpecCap == InitCap /\ [][Next]_vars

----------------------------------------------------------------------------
(* Properties of find_best_matches, checked under SpecMatch. *)

Range(q) == {q[i] : i \in DOMAIN q}

\* The place of a reference ID in lexicographic order.
LexRank(id) == CHOOSE i \in DOMAIN RefIds : RefIds[i] = id

\* The largest score of a non-empty row.
MaxScore(scores) ==
    CHOOSE m \in {scores[j].val : j \in DOMAIN scores} :
        \A j \in DOMAIN scores : scores[j].val <= m

\* C1: when find_best_matches has returned, a candidate is a key of the
\* result exactly if the largest score of its row is >= threshold (equality
\* accepts); its match then names a column holding that largest score and
\* carries that score as confidence.
C1_ThresholdMatch ==
    mpc = "done" =>
        \A r \in DOMAIN similarities :
            LET row == similarities[r]
                top == MaxScore(row.val)
            IN  /\ HasKey(matches, row.key) <=> top >= threshold
                /\ HasKey(matches, row.key) =>
                       /\ Get(matches, row.key).confidence = top
                       /\ \E j \in DOMAIN row.val :
                              /\ row.val[j].key = Get(matches, row.key).character
                              /\ row.val[j].val = top

\* One row whose largest score equals the threshold and is matched, and one
\* row whose largest score is below it and is left out.
C1_Witness ==
    /\ mpc = "done"
    /\ \E r \in DOMAIN similarities :
           /\ MaxScore(similarities[r].val) = threshold
           /\ HasKey(matches, similarities[r].key)
    /\ \E r \in DOMAIN similarities :
           /\ MaxScore(similarities[r].val) < threshold
           /\ ~HasKey(matches, similarities[r].key)

\* C2: when find_best_matches has returned, every match names the
\* lexicographically smallest of the references that share the largest score
\* of the row, whatever the insertion order of the references.
C2_LexTieBreak ==
    mpc = "done" =>
        \A r \in DOMAIN similarities :
            LET row == similarities[r]
                tied == {row.val[j].key : j \in
                            {k \in DOMAIN row.val : row.val[k].val = MaxScore(row.val)}}
            IN  HasKey(matches, row.key) =>
                    \A id \in tied :
                        LexRank(Get(matches, row.key).character) <= LexRank(id)

\* C3: with an empty reference dict find_best_matches does not raise, and
\* returns an empty result.
C3_EmptyReferences ==
    embeddings2 = <<>> =>
        /\ mpc # "raised"
        /\ mpc = "done" => matches = <<>>

----------------------------------------------------------------------------
(* Properties of create_speaker_embeddings. *)

\* create_speaker_embeddings has returned its dict.
Returned == pc \in {"returned", "built", "matching", "done"}

\* The calls made for a speaker, and the vectors the encoder returned for it.
LogOf(s) == SelectSeq(extract_log, LAMBDA e : e.speaker = s)

OkLogOf(s) == SelectSeq(extract_log, LAMBDA e : e.out.kind = "ok" /\ e.speaker = s)

RECURSIVE SumOfComponent(_, _)
SumOfComponent(entries, d) ==
    IF entries = <<>> THEN 0
    ELSE entries[1].out.vec[d] + SumOfComponent(Tail(entries), d)

\* C4 (Spec): an outcome that is an unusable extraction or an encoder error
\* never ends the run; every selected utterance of a speaker is tried in
\* turn, every speaker gets its turn, and a speaker's embedding is the
\* elementwise mean of exactly the vectors the encoder returned for it, their
\* number being the count reported.
C4_FailureIsolation ==
    /\ pc = "raised" => extract_log[Len(extract_log)].out.kind = "oserror"
    /\ pc = "embed" =>
           /\ Len(LogOf(speaker_segments[si].key)) = ei
           /\ \A k \in 1..ei : LogOf(speaker_segments[si].key)[k].i = k - 1
    /\ Returned =>
           {status_log[k].speaker : k \in DOMAIN status_log} = Keys(speaker_segments)
    /\ \A k \in DOMAIN status_log :
           LET s == status_log[k].speaker
               got == OkLogOf(s)
           IN  status_log[k].status # "no valid segments" =>
                   /\ status_log[k].n = Len(got)
                   /\ Len(got) > 0 =>
                          /\ HasKey(speaker_embeddings, s)
                          /\ \A d \in 1..2 :
                                 Len(got) * Get(speaker_embeddings, s)[d]
                                     = SumOfComponent(got, d)

\* A speaker with three utterances: the extraction of the first fails, the
\* encoder returns two different vectors for the other two, and the
\* embedding is their mean.
C4_Witness ==
    /\ pc = "done"
    /\ Len(status_log) = 1
    /\ LET s == status_log[1].speaker
       IN  /\ Len(LogOf(s)) = 3
           /\ LogOf(s)[1].out.kind = "ffmpeg_error"
           /\ LogOf(s)[2].out.kind = "ok"
           /\ LogOf(s)[3].out.kind = "ok"
           /\ LogOf(s)[2].out.vec # LogOf(s)[3].out.vec
           /\ status_log[1].n = 2
           /\ Get(speaker_embeddings, s) = <<30, 30>>

\* C5 (Spec): on return a speaker is a key of the map exactly if the encoder
\* returned a vector for one of its utterances; no entry is an empty or zero
\* vector; and speaker_count is the number of keys.
C5_Absence ==
    /\ Returned =>
           /\ \A s \in Labels :
                  HasKey(speaker_embeddings, s) <=> Len(OkLogOf(s)) > 0
           /\ \A k \in DOMAIN speaker_embeddings :
                  /\ Len(speaker_embeddings[k].val) = 2
                  /\ speaker_embeddings[k].val # <<0, 0>>
    /\ result # <<>> =>
           /\ result[1].embeddings = speaker_embeddings
           /\ result[1].speaker_count = Cardinality(Keys(result[1].embeddings))

\* One speaker without a valid segment, one whose every utterance failed, and
\* neither is in the map.
C5_Witness ==
    /\ pc = "done"
    /\ \E k \in DOMAIN status_log : status_log[k].status = "no valid segments"
    /\ \E k \in DOMAIN status_log :
           /\ status_log[k].status = "failed to create embedding"
           /\ Len(LogOf(status_log[k].speaker)) = 2
    /\ result[1].speaker_count = 0
    /\ Len(speaker_segments) = 2

\* C8 (Spec): once create_speaker_embeddings has returned or raised, no audio
\* file written for the run is left on disk.
C8_Released ==
    Returned \/ pc = "raised" => files = {}

----------------------------------------------------------------------------
(* Properties of the merge, checked under SpecMerge and SpecCap. *)

\* The input words whose tokens make up the text of a segment.
Members(u) == {words[t] : t \in Range(u.text)}

WellFormed == \A i \in DOMAIN words : words[i].end >= words[i].start

\* The spans of spec section 8.
ExampleWords ==
    <<[speaker |-> "S1", start |-> 0, end |-> 400, text |-> <<1>>],
      [speaker |-> "S1", start |-> 450, end |-> 900, text |-> <<2>>],
      [speaker |-> "S1", start |-> 2000, end |-> 2200, text |-> <<3>>]>>

\* C6 (SpecMerge): every merged segment, and so every segment handed to the
\* extractor, lasts strictly more than 500 ms; the spans [0,400) [450,900)
\* [2000,2200) give the one segment [0,900).
C6_MinDuration ==
    /\ \A k \in DOMAIN merged_segments :
           merged_segments[k].end - merged_segments[k].start > 500
    /\ \A k \in DOMAIN extract_log : extract_log[k].end - extract_log[k].start > 500
    /\ words = ExampleWords /\ pc = "embed" =>
           merged_segments = <<[start |-> 0, end |-> 900, text |-> <<1, 2>>]>>
    /\ words = ExampleWords /\ Returned =>
           /\ Len(extract_log) = 1
           /\ extract_log[1].start = 0
           /\ extract_log[1].end = 900

\* The example has been merged, and its one segment extracted.
C6_Witness ==
    /\ words = ExampleWords
    /\ pc = "done"
    /\ merged_segments = <<[start |-> 0, end |-> 900, text |-> <<1, 2>>]>>
    /\ Len(extract_log) = 1

\* C7 (SpecCap): only the first 10 segments of a speaker, in list order, are
\* folded into a merged segment; the extractor is called at most 5 times for
\* a speaker, on the first merged segments in order.
C7_Caps ==
    /\ pc \in {"merge", "embed"} =>
           LET first == Range(Take(speaker_segments[si].val, 10))
           IN  \A u \in Range(merged_segments) \cup Range(current) :
                   \A t \in Range(u.text) : \E g \in first : g.text = <<t>>
    /\ \A s \in Keys(speaker_segments) :
           /\ Len(LogOf(s)) <= 5
           /\ \A k \in DOMAIN LogOf(s) : LogOf(s)[k].i = k - 1
    /\ pc = "embed" =>
           LET log == LogOf(speaker_segments[si].key)
           IN  /\ Len(log) = ei
               /\ \A k \in DOMAIN log :
                      /\ log[k].start = merged_segments[k].start
                      /\ log[k].end = merged_segments[k].end

\* More than 10 segments, one past the tenth starting before one of the first
\* ten, more than 5 merged segments, and 5 of them extracted.
C7_Witness ==
    /\ pc = "embed"
    /\ ei = 5
    /\ Len(merged_segments) > 5
    /\ LET segs == speaker_segments[si].val
       IN  /\ Len(segs) > 10
           /\ \E k \in 11..Len(segs) : \E j \in 1..10 : segs[k].start < segs[j].start

\* C9 (SpecMerge): for spans with end >= start, the merged segments are in
\* ascending order of start, consecutive ones are at least 500 ms apart, and
\* no two spans less than 500 ms apart (the later start minus the earlier
\* span's end) are split over two merged segments.
C9_OrderedSeparated ==
    WellFormed =>
        /\ \A k \in 1..(Len(merged_segments) - 1) :
               /\ merged_segments[k].start <= merged_segments[k + 1].start
               /\ merged_segments[k + 1].start - merged_segments[k].end >= 500
        /\ pc = "embed" =>
               \A j, k \in DOMAIN sorted_segs :
                   j < k /\ sorted_segs[k].start - sorted_segs[j].end < 500 =>
                       \A a, b \in DOMAIN merged_segments :
                           /\ sorted_segs[j].text[1] \in Range(merged_segments[a].text)
                           /\ sorted_segs[k].text[1] \in Range(merged_segments[b].text)
                           => a = b

\* C10 (SpecMerge): for spans with end >= start, a merged segment starts at
\* the smallest start and ends at the largest end of the spans folded into it.
C10_Covers ==
    WellFormed =>
        \A k \in DOMAIN merged_segments :
            LET u == merged_segments[k]
            IN  /\ \A w \in Members(u) : u.start <= w.start /\ w.end <= u.end
                /\ \E w \in Members(u) : u.start = w.start
                /\ \E w \in Members(u) : u.end = w.end

====
